---- MODULE Spec2Model ----
(***************************************************************************)
(* A model of the two numerical routines of "NMCA3 Option B.ipynb":        *)
(*   run_LIF_network(x, F, b, T, dt)  the Euler simulator of a population   *)
(*                                    of leaky integrate-and-fire neurons,  *)
(*   LIF_io(x, f, b, T)               the analytical rate function.         *)
(*                                                                         *)
(* Numbers.  A float64 is modelled as a record [k, v]: k = "fin" with v    *)
(* the value in units of 1/Scale, or k = "nan", "pinf", "ninf".  In the     *)
(* simulator's specifications every weight, bias, threshold and input       *)
(* sample is a whole number and dt is 1/2, so every intermediate            *)
(* value is a dyadic rational with a handful of bits: float64 computes it   *)
(* exactly and so does the fixed point arithmetic below (Scale = 10^8 is a  *)
(* multiple of 2^8, and a run halves at most MaxNT-1 times).  Arrays are    *)
(* functions on 0..n-1, as in the source.                                   *)
(***************************************************************************)
EXTENDS Integers, Sequences, FiniteSets, TLC

\* ------------------------------------------------------------------ bounds
\* Largest population of one simulated call.
MaxN == 2
\* Longest time grid of one simulated call.
MaxNT == 4

\* ------------------------------------------------------------------ floats
\* The fixed point unit: a finite value v stands for v / Scale.
Scale == 10^8

NaN == [k |-> "nan", v |-> 0]
PInf == [k |-> "pinf", v |-> 0]
NInf == [k |-> "ninf", v |-> 0]
Num(n) == [k |-> "fin", v |-> n]
\* The float of a whole number.
Real(n) == Num(n * Scale)
IsNaN(a) == a.k = "nan"

\* a + c.
FAdd(a, c) == IF IsNaN(a) \/ IsNaN(c) THEN NaN ELSE Num(a.v + c.v)
\* -a.
FNeg(a) == IF IsNaN(a) THEN NaN ELSE Num(-a.v)
\* a * c, for c a whole-valued float (an input sample).
FMulWhole(a, c) == IF IsNaN(a) \/ IsNaN(c) THEN NaN ELSE Num(a.v * (c.v \div Scale))
\* h * a, for h = <<num, den>> the rational time step.
FMulStep(h, a) == IF IsNaN(a) THEN NaN ELSE Num((h[1] * a.v) \div h[2])
\* a >= c and a < c: every comparison with a NaN is false.
FGe(a, c) == ~IsNaN(a) /\ ~IsNaN(c) /\ a.v >= c.v
FLt(a, c) == ~IsNaN(a) /\ ~IsNaN(c) /\ a.v < c.v

\* The low-precision unit of products and quotients of two fixed point
\* values (Half * Half = Scale): they keep four decimal places.
Half == 10^4
\* a - c, both finite.
FSub(a, c) == Num(a.v - c.v)
\* a / c, both finite: x/0 is an infinity of x's sign, 0/0 is NaN (numpy warns
\* and goes on).
FDivide(a, c) ==
    IF c.v = 0
    THEN (IF a.v > 0 THEN PInf ELSE IF a.v < 0 THEN NInf ELSE NaN)
    ELSE IF c.v < 0 THEN Num(((0 - a.v) \div ((0 - c.v) \div Half)) * Half)
    ELSE Num((a.v \div (c.v \div Half)) * Half)
\* a * c to four places, both finite and non-negative.
FMulLow(a, c) == Num((a.v \div Half) * (c.v \div Half))

RECURSIVE AtanhSum(_, _, _)
\* z + z^3/3 + z^5/5 + ... from the term zpow/k on, until a term vanishes.
AtanhSum(zpow, z2, k) ==
    IF zpow.v \div k = 0 THEN 0
    ELSE (zpow.v \div k) + AtanhSum(FMulLow(zpow, z2), z2, k + 2)
\* ln(q) for a finite q > 1, as 2*atanh((q-1)/(q+1)).
LnAbove(q) ==
    LET z == FDivide(FSub(q, Real(1)), FAdd(q, Real(1)))
    IN 2 * AtanhSum(z, FMulLow(z, z), 1)
\* np.log(q): NaN below 0 (and of NaN), -inf at 0, +inf at +inf.
FLog(q) ==
    CASE q.k = "nan" -> NaN
      [] q.k = "pinf" -> PInf
      [] q.k = "ninf" -> NaN
      [] OTHER -> IF q.v < 0 THEN NaN
                  ELSE IF q.v = 0 THEN NInf
                  ELSE IF q.v = Scale THEN Real(0)
                  ELSE IF q.v > Scale THEN Num(LnAbove(q))
                  ELSE Num(0 - LnAbove(FDivide(Real(1), q)))
\* 1/o: 1/inf is 0 (1/-inf is -0.0, which equals 0), 1/0 is +inf.  An o
\* below the four-place resolution overflows likewise.
FRecip(o) ==
    CASE o.k = "nan" -> NaN
      [] o.k = "pinf" -> Real(0)
      [] o.k = "ninf" -> Real(0)
      [] OTHER -> IF o.v = 0 THEN PInf
                  ELSE IF o.v < 0 /\ (0 - o.v) \div Half = 0 THEN NInf
                  ELSE IF o.v < 0 THEN Num(0 - (Scale \div ((0 - o.v) \div Half)) * Half)
                  ELSE IF o.v \div Half = 0 THEN PInf
                  ELSE Num((Scale \div (o.v \div Half)) * Half)
\* o <= 0: false of NaN and of +inf.
FLe0(o) == o.k = "ninf" \/ (o.k = "fin" /\ o.v <= 0)

\* ------------------------------------------------------------------ arrays
\* len(a): the length of the first axis.
len(a) == Cardinality(DOMAIN a)
zerosT(n, m) == [j \in 0..(m - 1) |-> [t \in 0..(n - 1) |-> Real(0)]]
\* np.zeros((n, m)).
zeros(n, m) == [j \in 0..(n - 1) |-> [t \in 0..(m - 1) |-> Real(0)]]
\* The arrays of length n over the set S.
Arrays(n, S) == [0..(n - 1) -> S]

\* ------------------------------------------------------- run_LIF_network
\* The arguments and locals of the call under way; Vpre keeps, per column,
\* the voltage line 109 computed before lines 115-116 reset it.
VARIABLES x, F, b, T, dt, V, s, r, Vpre, i, pc
\* The call of LIF_io under way: its arguments, its locals out and rate and
\* the line it stands at.  kind is the type of the argument x: "ndarray", or
\* one of the scalars "float64" (a numpy scalar) and "float" (a Python
\* number); a scalar is held as one element.
VARIABLE lif
\* A call of run_LIF_network followed on the shapes of its arrays alone:
\* the shapes of the arguments, the locals nT and N, the shape of V (s and r
\* have the same), the loop index and the line the call stands at.
VARIABLE kd
\* The notebook's example run: the loop index, column i-1 of V, s and r, and
\* the running average of r over the last fifth of the grid.
VARIABLE ex

simVars == <<x, F, b, T, dt, V, s, r, Vpre, i, pc>>
vars == <<simVars, lif, kd, ex>>

LifIdle == [pc |-> "idle", kind |-> "ndarray", x |-> << >>, f |-> Real(0),
            b |-> Real(0), T |-> Real(0), out |-> << >>, rate |-> << >>]
KdIdle == [pc |-> "idle", xShape |-> << >>, FShape |-> << >>, bShape |-> << >>,
           TShape |-> << >>, nT |-> 0, N |-> 0, VShape |-> << >>, i |-> 0]
ExIdle == [pc |-> "idle", i |-> 0, V |-> << >>, s |-> << >>, r |-> << >>, mean |-> 0]

\* The simulated calls: call 1 alone, or calls 1 and 2 run side by side on
\* the same x and dt.
Calls == DOMAIN F
nT == len(x)
N(c) == len(F[c])

VoltageUpdateNoLeak(Vprev, Fj, xprev, bj, h) ==
    FAdd(Vprev, FMulStep(h, FAdd(FMulWhole(Fj, xprev), bj)))
\* Line 109, one neuron: V[:, i-1] + dt*(-V[:, i-1] + F*x[i-1] + b).
VoltageUpdate(Vprev, Fj, xprev, bj, h) ==
    FAdd(Vprev, FMulStep(h, FAdd(FAdd(FNeg(Vprev), FMulWhole(Fj, xprev)), bj)))

FilterUpdateScaled(rprev, sprev, h) ==
    FAdd(FAdd(rprev, FMulStep(h, FNeg(rprev))), FMulStep(h, sprev))
\* Line 112, one neuron: r[:, i-1] + dt*(-r[:, i-1]) + s[:, i-1].
FilterUpdate(rprev, sprev, h) ==
    FAdd(FAdd(rprev, FMulStep(h, FNeg(rprev))), sprev)

spiking_neurons_strict(Vcol, Tvec) ==
    {j \in DOMAIN Vcol : FGe(Vcol[j], Tvec[j]) /\ Vcol[j] # Tvec[j]}
\* Line 115: np.arange(N)[V[:, i] >= T].
spiking_neurons(Vcol, Tvec) == {j \in DOMAIN Vcol : FGe(Vcol[j], Tvec[j])}

ResetAll(Vcol, spk) ==
    [j \in DOMAIN Vcol |-> IF spk # {} THEN Real(0) ELSE Vcol[j]]
ResetNone(Vcol, spk) == Vcol
\* Line 116: V[spiking_neurons, i] = 0.
Reset(Vcol, spk) ==
    [j \in DOMAIN Vcol |-> IF j \in spk THEN Real(0) ELSE Vcol[j]]

\* Line 117: s[spiking_neurons, i] = 1.
SetSpikes(scol, spk) ==
    [j \in DOMAIN scol |-> IF j \in spk THEN Real(1) ELSE scol[j]]

\* Column t of a matrix, and the matrix with column t replaced.
Col(M, t) == [j \in DOMAIN M |-> M[j][t]]
WithCol(M, t, col) == [j \in DOMAIN M |-> [M[j] EXCEPT ![t] = col[j]]]

\* The values the inputs are drawn from.
XVals == {Real(0), Real(2), NaN}
FVals == {Real(-1), Real(1)}
bVals == {Real(0), Real(1)}
TVals == {Real(0), Real(1)}
dtVals == {<<1, 2>>}

\* Before a call: the arguments are given, nothing is allocated.  F, b and T
\* have one length (the caller's precondition).
InitArgs(calls, XS, FS, BS, TS) ==
    /\ \E n \in 1..MaxNT : x \in Arrays(n, XS)
    /\ dt \in dtVals
    /\ \E sz \in [calls -> 1..MaxN] :
          /\ F \in [calls -> UNION {Arrays(n, FS) : n \in 1..MaxN}]
          /\ b \in [calls -> UNION {Arrays(n, BS) : n \in 1..MaxN}]
          /\ T \in [calls -> UNION {Arrays(n, TS) : n \in 1..MaxN}]
          /\ \A c \in calls : len(F[c]) = sz[c] /\ len(b[c]) = sz[c] /\ len(T[c]) = sz[c]
    /\ V = [c \in calls |-> << >>]
    /\ s = [c \in calls |-> << >>]
    /\ r = [c \in calls |-> << >>]
    /\ Vpre = [c \in calls |-> << >>]
    /\ i = 0
    /\ pc = "start"

\* Lines 98-104: nT = len(x), N = len(F), the three zero arrays.
Enter ==
    /\ pc = "start"
    /\ V' = [c \in Calls |-> zeros(N(c), nT)]
    /\ s' = [c \in Calls |-> zeros(N(c), nT)]
    /\ r' = [c \in Calls |-> zeros(N(c), nT)]
    /\ Vpre' = [c \in Calls |-> zeros(N(c), nT)]
    /\ i' = 1
    /\ pc' = "loop"
    /\ UNCHANGED <<x, F, b, T, dt, lif, kd, ex>>

\* Lines 107-117: one iteration of `for i in range(1, nT)`.  Vpre keeps the
\* value line 109 stored in V[:, i] before lines 115-117 overwrite it.
Iterate ==
    /\ pc = "loop"
    /\ i < nT
    /\ LET Vnew(c) == [j \in DOMAIN V[c] |->
                          VoltageUpdate(V[c][j][i - 1], F[c][j], x[i - 1], b[c][j], dt)]
           rnew(c) == [j \in DOMAIN r[c] |->
                          FilterUpdate(r[c][j][i - 1], s[c][j][i - 1], dt)]
           spk(c) == spiking_neurons(Vnew(c), T[c])
       IN /\ V' = [c \in Calls |-> WithCol(V[c], i, Reset(Vnew(c), spk(c)))]
          /\ r' = [c \in Calls |-> WithCol(r[c], i, rnew(c))]
          /\ s' = [c \in Calls |-> WithCol(s[c], i, SetSpikes(Col(s[c], i), spk(c)))]
          /\ Vpre' = [c \in Calls |-> WithCol(Vpre[c], i, Vnew(c))]
    /\ i' = i + 1
    /\ UNCHANGED <<x, F, b, T, dt, pc, lif, kd, ex>>

\* Line 119: return V, s, r.
Return ==
    /\ pc = "loop"
    /\ i >= nT
    /\ pc' = "done"
    /\ UNCHANGED <<x, F, b, T, dt, V, s, r, Vpre, i, lif, kd, ex>>

\* No simulator call is under way.
SimIdle ==
    /\ x = << >> /\ F = << >> /\ b = << >> /\ T = << >> /\ dt = <<1, 1>>
    /\ V = << >> /\ s = << >> /\ r = << >> /\ Vpre = << >>
    /\ i = 0 /\ pc = "idle"

\* ----------------------------------------------------------------- LIF_io
\* A call about to start.
LifCall(kind, xs, f0, b0, T0) ==
    [pc |-> "224", kind |-> kind, x |-> xs, f |-> f0, b |-> b0, T |-> T0,
     out |-> << >>, rate |-> << >>]

\* f*x + b of one element.
Drive(f0, xv, b0) == FAdd(FMulWhole(f0, xv), b0)

\* Line 224, one element: np.log((f*x+b) / (f*x+b-T)).
LogRatio(f0, xv, b0, T0) ==
    FLog(FDivide(Drive(f0, xv, b0), FSub(Drive(f0, xv, b0), T0)))

MaskNegative(rate, out) ==
    [e \in DOMAIN rate |-> IF FLe0(out[e]) /\ out[e] # Real(0) THEN Real(0) ELSE rate[e]]
\* Line 226: rate[out<=0] = 0.
MaskNonPositive(rate, out) ==
    [e \in DOMAIN rate |-> IF FLe0(out[e]) THEN Real(0) ELSE rate[e]]

\* Line 227: rate[np.isnan(rate)] = 0.
MaskNaN(rate) ==
    [e \in DOMAIN rate |-> IF IsNaN(rate[e]) THEN Real(0) ELSE rate[e]]

\* Python's float division raises on a zero divisor; numpy's does not.
ZeroDivision ==
    /\ lif.kind = "float"
    /\ Drive(lif.f, lif.x[0], lif.b) = lif.T

\* Line 224: out = np.log((f*x+b) / (f*x+b-T)).
L224 ==
    /\ lif.pc = "224"
    /\ ~ZeroDivision
    /\ lif' = [lif EXCEPT !.pc = "225",
                          !.out = [e \in DOMAIN lif.x |->
                                      LogRatio(lif.f, lif.x[e], lif.b, lif.T)]]
    /\ UNCHANGED <<simVars, kd, ex>>

\* Line 224 on Python numbers with f*x+b = T: ZeroDivisionError.
L224Raise ==
    /\ lif.pc = "224"
    /\ ZeroDivision
    /\ lif' = [lif EXCEPT !.pc = "ZeroDivisionError"]
    /\ UNCHANGED <<simVars, kd, ex>>

\* Line 225: rate = 1/out.
L225 ==
    /\ lif.pc = "225"
    /\ lif' = [lif EXCEPT !.pc = "226",
                          !.rate = [e \in DOMAIN lif.out |-> FRecip(lif.out[e])]]
    /\ UNCHANGED <<simVars, kd, ex>>

\* Line 226 on an array.
L226 ==
    /\ lif.pc = "226"
    /\ lif.kind = "ndarray"
    /\ lif' = [lif EXCEPT !.pc = "227", !.rate = MaskNonPositive(lif.rate, lif.out)]
    /\ UNCHANGED <<simVars, kd, ex>>

\* Line 226 on a scalar: np.log returned a numpy.float64, which supports no
\* item assignment: TypeError.
L226Raise ==
    /\ lif.pc = "226"
    /\ lif.kind # "ndarray"
    /\ lif' = [lif EXCEPT !.pc = "TypeError"]
    /\ UNCHANGED <<simVars, kd, ex>>

\* Line 227.
L227 ==
    /\ lif.pc = "227"
    /\ lif' = [lif EXCEPT !.pc = "228", !.rate = MaskNaN(lif.rate)]
    /\ UNCHANGED <<simVars, kd, ex>>

\* Line 228: return rate.
L228 ==
    /\ lif.pc = "228"
    /\ lif' = [lif EXCEPT !.pc = "returned"]
    /\ UNCHANGED <<simVars, kd, ex>>

\* The call has ended, by a return or by an exception.
LifEnded == lif.pc \in {"returned", "ZeroDivisionError", "TypeError"}

\* Longest array given to LIF_io.
MaxLen == 3
IoXVals == {Real(-1), Real(0), Real(1), Real(2)}
IoFVals == {Real(-1), Real(1), Real(2)}
IoBVals == {Real(-1), Real(0), Real(1)}
IoTVals == {Real(-1), Real(0), Real(1), Real(2)}

\* ------------------------------------------- run_LIF_network on shapes
\* run_LIF_network followed on the shapes of its arrays alone.
\* Largest length of an axis, and largest number K of input dimensions.
MaxDim == 4

\* The shape of no array: the operation raised.
NoShape == <<0>>
Larger(m, n) == IF m >= n THEN m ELSE n
\* sh with axes of length 1 put before it, up to n axes.
Pad(sh, n) ==
    [k \in 1..n |-> IF k <= n - Len(sh) THEN 1 ELSE sh[k - (n - Len(sh))]]
\* numpy's broadcasting of two shapes: aligned at the last axis, two lengths
\* agree when they are equal or one of them is 1.
Broadcast(a, c) ==
    IF a = NoShape \/ c = NoShape THEN NoShape
    ELSE LET n == Larger(Len(a), Len(c))
             pa == Pad(a, n)
             pb == Pad(c, n)
         IN IF \A k \in 1..n : pa[k] = pb[k] \/ pa[k] = 1 \/ pb[k] = 1
            THEN [k \in 1..n |-> Larger(pa[k], pb[k])]
            ELSE NoShape
\* x[i-1]: the first axis indexed away.
Indexed(sh) == SubSeq(sh, 2, Len(sh))
\* target[...] = value: the value's extra leading axes must have length 1
\* and the rest must broadcast to the target.
Assignable(target, val) ==
    /\ val # NoShape
    /\ LET extra == Len(val) - Len(target)
       IN IF extra > 0
          THEN /\ \A k \in 1..extra : val[k] = 1
               /\ Broadcast(target, SubSeq(val, extra + 1, Len(val))) = target
          ELSE Broadcast(target, val) = target
\* The shape of V[:, i-1] + dt*(-V[:, i-1] + F*x[i-1] + b) on line 109.
Line109Shape ==
    LET column == <<kd.VShape[1]>>
        drive == Broadcast(Broadcast(column, Broadcast(kd.FShape, Indexed(kd.xShape))),
                           kd.bShape)
    IN Broadcast(column, drive)
\* Lines 109-117 go through: line 109's value fits the column V[:, i], and
\* line 115's mask V[:, i] >= T has the length of np.arange(N).
IterationFits ==
    /\ Assignable(<<kd.VShape[1]>>, Line109Shape)
    /\ Broadcast(<<kd.VShape[1]>>, kd.TShape) = <<kd.N>>

\* Lines 98-104: nT = len(x) and N = len(F) are the lengths of the first
\* axes; the arrays are np.zeros((N, nT)).
KdEnter ==
    /\ kd.pc = "start"
    /\ kd' = [kd EXCEPT !.pc = "loop", !.nT = kd.xShape[1], !.N = kd.FShape[1],
                        !.VShape = <<kd.FShape[1], kd.xShape[1]>>, !.i = 1]
    /\ UNCHANGED <<simVars, lif, ex>>

\* Lines 107-117: one iteration.
KdIterate ==
    /\ kd.pc = "loop"
    /\ kd.i < kd.nT
    /\ IterationFits
    /\ kd' = [kd EXCEPT !.i = kd.i + 1]
    /\ UNCHANGED <<simVars, lif, ex>>

\* Lines 109-115 on shapes that do not fit: ValueError.
KdIterateRaise ==
    /\ kd.pc = "loop"
    /\ kd.i < kd.nT
    /\ ~IterationFits
    /\ kd' = [kd EXCEPT !.pc = "ValueError"]
    /\ UNCHANGED <<simVars, lif, ex>>

\* Line 119.
KdReturn ==
    /\ kd.pc = "loop"
    /\ kd.i >= kd.nT
    /\ kd' = [kd EXCEPT !.pc = "returned"]
    /\ UNCHANGED <<simVars, lif, ex>>

KdEnded == kd.pc \in {"returned", "ValueError"}

\* ------------------------------------------- the single neuron example
\* The notebook's example run (lines 137-153) for one neuron, followed by
\* the average of r over the last fifth of the grid and by the call
\* LIF_io(5, 0.4, 0, 1).  The loop reads column i-1 alone, so the state keeps
\* that column of V, s and r (V, s, r below) and the running average of the
\* window.  With dt = 1/1000 the fixed point voltage differs from the exact
\* one by less than 10^-5 at every step, and the exact pre-reset voltage
\* 2*(1 - 0.999^k) passes the threshold 1 between k = 692 and k = 693 with
\* a margin above 2*10^-4: the spikes fall on the steps they fall on in
\* float64.
\* Line 138: dt = 1e-3, as 1/ExDtDen.
ExDtDen == 1000
\* Line 139: Tend = 10.
ExTend == 10
Exdt == <<1, ExDtDen>>
\* Lines 140-141: nT = len(np.arange(0, Tend, dt)).
ExnT == ExTend * ExDtDen
\* Lines 145-150 for one neuron: F = 0.4, b = 0, T = 1, x = 5 throughout.
ExF == [j \in {0} |-> Num((4 * Scale) \div 10)]
Exb == [j \in {0} |-> Real(0)]
ExT == [j \in {0} |-> Real(1)]
Exx == Real(5)
\* The last 20% of the time window: the columns from ExWindow on.
ExWindowLen == ExnT \div 5
ExWindow == ExnT - ExWindowLen

\* Lines 98-104 of the example call.
ExEnter ==
    /\ ex.pc = "start"
    /\ ex' = [ex EXCEPT !.pc = "loop", !.i = 1,
                        !.V = [j \in DOMAIN ExF |-> Real(0)],
                        !.s = [j \in DOMAIN ExF |-> Real(0)],
                        !.r = [j \in DOMAIN ExF |-> Real(0)]]
    /\ UNCHANGED <<simVars, lif, kd>>

\* Lines 107-117 of the example call: column i from column i-1.
ExIterate ==
    /\ ex.pc = "loop"
    /\ ex.i < ExnT
    /\ LET Vnew == [j \in DOMAIN ex.V |->
                       VoltageUpdate(ex.V[j], ExF[j], Exx, Exb[j], Exdt)]
           rnew == [j \in DOMAIN ex.r |-> FilterUpdate(ex.r[j], ex.s[j], Exdt)]
           spk == spiking_neurons(Vnew, ExT)
       IN ex' = [ex EXCEPT !.i = ex.i + 1,
                           !.V = Reset(Vnew, spk),
                           !.s = SetSpikes([j \in DOMAIN ex.s |-> Real(0)], spk),
                           !.r = rnew,
                           !.mean = IF ex.i >= ExWindow
                                    THEN ex.mean + (rnew[0].v \div ExWindowLen)
                                    ELSE ex.mean]
    /\ UNCHANGED <<simVars, lif, kd>>

\* Line 119 of the example call, then the analytical rate is asked for at
\* x = 5: with the scalar 5, or with the one-element array [5].
ExReturn ==
    /\ ex.pc = "loop"
    /\ ex.i >= ExnT
    /\ ex' = [ex EXCEPT !.pc = "done"]
    /\ \E kind \in {"float", "ndarray"} :
          lif' = LifCall(kind, [e \in {0} |-> Exx], ExF[0], Exb[0], ExT[0])
    /\ UNCHANGED <<simVars, kd>>

InitEx ==
    /\ SimIdle
    /\ lif = LifIdle
    /\ kd = KdIdle
    /\ ex = [ExIdle EXCEPT !.pc = "start"]

NextEx ==
    ExEnter \/ ExIterate \/ ExReturn \/ L224 \/ L225 \/ L226 \/ L226Raise \/ L227 \/ L228

\* ---------------------------------------------------------- specifications
\* A call on a 1-D input (x of shape nT, F of shape N) or on a K-D input
\* (x of shape K x nT, F of shape K x N); b and T have shape N.
InitKD ==
    /\ SimIdle
    /\ lif = LifIdle
    /\ ex = ExIdle
    /\ \E nt \in 1..MaxDim, n \in 1..MaxDim :
          \/ kd = [KdIdle EXCEPT !.pc = "start", !.xShape = <<nt>>, !.FShape = <<n>>,
                                 !.bShape = <<n>>, !.TShape = <<n>>]
          \/ \E K \in 1..MaxDim :
                kd = [KdIdle EXCEPT !.pc = "start", !.xShape = <<K, nt>>,
                                   !.FShape = <<K, n>>, !.bShape = <<n>>, !.TShape = <<n>>]

NextKD == KdEnter \/ KdIterate \/ KdIterateRaise \/ KdReturn

\* A call of LIF_io on an array or on a scalar.
InitIO ==
    /\ SimIdle
    /\ kd = KdIdle
    /\ ex = ExIdle
    /\ \E f0 \in IoFVals, b0 \in IoBVals, T0 \in IoTVals :
          \/ \E n \in 1..MaxLen : \E xs \in Arrays(n, IoXVals) :
                lif = LifCall("ndarray", xs, f0, b0, T0)
          \/ \E kind \in {"float64", "float"} : \E xs \in Arrays(1, IoXVals) :
                lif = LifCall(kind, xs, f0, b0, T0)

NextIO == L224 \/ L224Raise \/ L225 \/ L226 \/ L226Raise \/ L227 \/ L228

\* No call of LIF_io, no call on shapes and no example run is under way.
OthersIdle == lif = LifIdle /\ kd = KdIdle /\ ex = ExIdle

\* One call, on every input of the bounds.
Init == InitArgs({1}, XVals, FVals, bVals, TVals) /\ OthersIdle

Next == Enter \/ Iterate \/ Return

Spec == Init /\ [][Next]_vars

\* Two calls on the same x and dt, their populations chosen freely.
InitPair ==
    InitArgs({1, 2}, XVals, FVals, {Real(0)}, {Real(1)}) /\ OthersIdle

SpecPair == InitPair /\ [][Next]_vars

SpecIO == InitIO /\ [][NextIO]_vars

SpecKD == InitKD /\ [][NextKD]_vars

SpecEx == InitEx /\ [][NextEx]_vars

\* ------------------------------------------------------------------ claims
\* The arrays exist (the call is in its loop or has returned).
Allocated == pc \in {"loop", "done"}
\* The columns the loop has written so far.
Written == 1..(i - 1)

\* C1: the three arrays have shape (N, nT), N = len(F), nT = len(x), and
\* their first time column is zero, whatever the inputs (thresholds <= 0
\* included).
C1_ShapeAndFirstColumn ==
    Allocated =>
        \A c \in Calls : \A M \in {V[c], s[c], r[c]} :
            /\ DOMAIN M = 0..(len(F[c]) - 1)
            /\ \A j \in DOMAIN M :
                  /\ DOMAIN M[j] = 0..(len(x) - 1)
                  /\ M[j][0] = Real(0)

\* C1's case: a returned call of two neurons over a longer grid, one neuron
\* with threshold 0 and a spike recorded later on.
C1_Witness ==
    /\ pc = "done"
    /\ N(1) = 2 /\ nT = 3
    /\ T[1][0] = Real(0)
    /\ s[1][0][1] = Real(1)
    /\ s[1][0][0] = Real(0)

\* C2: a spike is recorded at step t iff the pre-reset voltage of that step
\* is >= the threshold (equality spikes); then the returned voltage is 0,
\* otherwise no spike is recorded and the voltage keeps its pre-reset value.
C2_SpikeIffThreshold ==
    Allocated =>
        \A c \in Calls : \A j \in DOMAIN V[c] : \A t \in Written :
            LET above == FGe(Vpre[c][j][t], T[c][j])
            IN /\ (s[c][j][t] = Real(1)) <=> above
               /\ above => V[c][j][t] = Real(0)
               /\ ~above => s[c][j][t] = Real(0) /\ V[c][j][t] = Vpre[c][j][t]

\* C2's case: one neuron reaches its positive threshold exactly and spikes,
\* and a neuron stays below threshold with a non-zero voltage kept.
C2_Witness ==
    /\ pc = "done"
    /\ \E j \in DOMAIN V[1] : \E t \in Written :
          /\ Vpre[1][j][t] = T[1][j] /\ T[1][j] = Real(1)
          /\ s[1][j][t] = Real(1) /\ V[1][j][t] = Real(0)
    /\ \E j \in DOMAIN V[1] : \E t \in Written :
          /\ FLt(Vpre[1][j][t], T[1][j])
          /\ V[1][j][t] # Real(0) /\ s[1][j][t] = Real(0)

\* C8: the pre-reset voltage of step t is
\* V[j,t-1] + dt*(-V[j,t-1] + F_j*x[t-1] + b_j) on the returned value of
\* step t-1 and the previous sample; after a spike at t-1 it is
\* dt*(F_j*x[t-1] + b_j).
C8_VoltageRecurrence ==
    Allocated =>
        \A c \in Calls : \A j \in DOMAIN V[c] : \A t \in Written :
            LET drive == FAdd(FMulWhole(F[c][j], x[t - 1]), b[c][j])
                prev == V[c][j][t - 1]
            IN /\ Vpre[c][j][t] = FAdd(prev, FMulStep(dt, FAdd(FNeg(prev), drive)))
               /\ s[c][j][t - 1] = Real(1) => Vpre[c][j][t] = FMulStep(dt, drive)

\* C8's case: a neuron spiked at step 1 from a non-zero pre-reset voltage
\* and restarts at step 2 with a non-zero drive; another step integrates
\* from a non-zero returned voltage.
C8_Witness ==
    /\ pc = "done"
    /\ nT >= 3
    /\ \E j \in DOMAIN V[1] :
          /\ s[1][j][1] = Real(1) /\ Vpre[1][j][1] # Real(0)
          /\ ~IsNaN(Vpre[1][j][2]) /\ Vpre[1][j][2] # Real(0)
    /\ \E j \in DOMAIN V[1] : \E t \in Written :
          /\ t >= 2 /\ ~IsNaN(V[1][j][t - 1]) /\ V[1][j][t - 1] # Real(0)
          /\ ~IsNaN(Vpre[1][j][t]) /\ b[1][j] # Real(0)

\* C9: r[j,t] = r[j,t-1] + dt*(-r[j,t-1]) + s[j,t-1]: a spike at t-1 adds
\* exactly 1, a spike at t adds nothing to r[j,t], and without a spike at
\* t-1 the rate only decays to (1-dt)*r[j,t-1].
C9_FilterRecurrence ==
    Allocated =>
        \A c \in Calls : \A j \in DOMAIN r[c] : \A t \in Written :
            LET prev == r[c][j][t - 1]
                decayed == FAdd(prev, FMulStep(dt, FNeg(prev)))
            IN /\ r[c][j][t] = FAdd(decayed, s[c][j][t - 1])
               /\ s[c][j][t - 1] = Real(1) => r[c][j][t] = FAdd(decayed, Real(1))
               /\ s[c][j][t - 1] = Real(0) =>
                      r[c][j][t].v * dt[2] = (dt[2] - dt[1]) * prev.v

\* C9's case: a spike at step 1 only: r is still 0 at step 1, jumps to 1 at
\* step 2 and decays at step 3.
C9_Witness ==
    /\ pc = "done"
    /\ nT >= 4
    /\ \E j \in DOMAIN r[1] :
          /\ s[1][j][1] = Real(1) /\ r[1][j][1] = Real(0)
          /\ r[1][j][2] = Real(1) /\ s[1][j][2] = Real(0)
          /\ FLt(r[1][j][3], Real(1)) /\ FLt(Real(0), r[1][j][3])

\* C10 as stated: with a positive threshold every returned voltage is
\* strictly below it, for any input.
C10_AlwaysBelowThreshold ==
    Allocated =>
        \A c \in Calls : \A j \in DOMAIN V[c] :
            T[c][j].v > 0 => \A t \in DOMAIN V[c][j] : FLt(V[c][j][t], T[c][j])

\* C10, amended: with a positive threshold every returned voltage is NaN or
\* strictly below the threshold (NaN >= T is false, so a NaN is never reset).
C10_BelowThresholdOrNaN ==
    Allocated =>
        \A c \in Calls : \A j \in DOMAIN V[c] :
            T[c][j].v > 0 =>
                \A t \in DOMAIN V[c][j] :
                    IsNaN(V[c][j][t]) \/ FLt(V[c][j][t], T[c][j])

\* C10's case: a neuron with a positive threshold went strictly above it and
\* was reset, and later holds a non-zero voltage below it.
C10_Witness ==
    /\ pc = "done"
    /\ \E j \in DOMAIN V[1] : \E t, u \in Written :
          /\ T[1][j].v > 0
          /\ FLt(T[1][j], Vpre[1][j][t]) /\ V[1][j][t] = Real(0)
          /\ u > t /\ FLt(Real(0), V[1][j][u]) /\ FLt(V[1][j][u], T[1][j])

\* C6: two calls on the same x and dt that agree on neuron j's parameters
\* give the same row j of V, s and r, however the other neurons (and N)
\* differ.
C6_Independent ==
    Allocated =>
        \A j \in DOMAIN F[1] \cap DOMAIN F[2] :
            (F[1][j] = F[2][j] /\ b[1][j] = b[2][j] /\ T[1][j] = T[2][j]) =>
                V[1][j] = V[2][j] /\ s[1][j] = s[2][j] /\ r[1][j] = r[2][j]

\* C6's case: the calls differ in N and in the other neuron; in one call the
\* other neuron spikes while neuron j holds a non-zero voltage, in the other
\* call that neuron is absent.
C6_Witness ==
    /\ pc = "done"
    /\ N(1) = 2 /\ N(2) = 1
    /\ F[1][0] = F[2][0] /\ b[1][0] = b[2][0] /\ T[1][0] = T[2][0]
    /\ \E t \in Written :
          /\ s[1][1][t] = Real(1)
          /\ s[1][0][t] = Real(0)
          /\ V[1][0][t] # Real(0)
          /\ V[2][0][t] = V[1][0][t]

\* C3 as stated: LIF_io returns exactly 0 at every element with
\* f*x + b <= T, for all f, b and T.
C3_ZeroBelowThreshold ==
    (lif.pc = "returned" /\ lif.kind = "ndarray") =>
        \A e \in DOMAIN lif.x :
            ~FLt(lif.T, Drive(lif.f, lif.x[e], lif.b)) => lif.rate[e] = Real(0)

\* C3, amended: LIF_io returns exactly 0 at every element with
\* f*x + b <= T, for all f and b and every threshold T >= 0.
C3_ZeroBelowNonNegativeThreshold ==
    (lif.pc = "returned" /\ lif.kind = "ndarray" /\ FGe(lif.T, Real(0))) =>
        \A e \in DOMAIN lif.x :
            ~FLt(lif.T, Drive(lif.f, lif.x[e], lif.b)) => lif.rate[e] = Real(0)

\* C3's case: one returned array with T > 0 whose three elements took the
\* NaN branch (negative log argument), the -inf branch (log argument 0) and
\* the branch of a finite negative log.
C3_Witness ==
    /\ lif.pc = "returned" /\ lif.kind = "ndarray"
    /\ FLt(Real(0), lif.T)
    /\ \E e1, e2, e3 \in DOMAIN lif.x :
          /\ IsNaN(lif.out[e1])
          /\ lif.out[e2] = NInf
          /\ lif.out[e3].k = "fin" /\ lif.out[e3].v < 0
          /\ \A e \in {e1, e2, e3} :
                ~FLt(lif.T, Drive(lif.f, lif.x[e], lif.b)) /\ lif.rate[e] = Real(0)

\* C5 as stated: LIF_io returns a rate, without an error, on an array and
\* on a scalar x alike.
C5_ReturnsOnScalarAndArray ==
    LifEnded => lif.pc = "returned"

\* C4 as stated: given x of shape K x nT and F of shape K x N (b and T of
\* length N), run_LIF_network produces arrays of shape N x nT.
C4_MultiDimensionalShape ==
    (KdEnded /\ Len(kd.xShape) = 2) =>
        kd.pc = "returned" /\ kd.VShape = <<kd.FShape[2], kd.xShape[2]>>

\* The 1-D contract on shapes: x of shape nT and F of shape N give arrays of
\* shape N x nT.
Kd_OneDimensionalShape ==
    (KdEnded /\ Len(kd.xShape) = 1) =>
        kd.pc = "returned" /\ kd.VShape = <<kd.FShape[1], kd.xShape[1]>>

\* a and c (both positive, in units of 1/Scale) differ by at most 5% of c.
Within5Percent(a, c) == 20 * (IF a >= c THEN a - c ELSE c - a) <= c

\* C7 as stated: for one neuron with F = 0.4, b = 0, T = 1 and x = 5 at
\* dt = 1e-3 over 10 time units, r averaged over the last 20% of the window
\* equals LIF_io(5, 0.4, 0, 1) within 5%.
C7_RateMatchesScalarCall ==
    (LifEnded /\ lif.kind = "float") =>
        lif.pc = "returned" /\ Within5Percent(ex.mean, lif.rate[0].v)

\* The same comparison with the analytical rate taken from the one-element
\* array [5]: the call returns 1/ln(2) and the average is within 5% of it.
Ex_RateMatchesArrayCall ==
    (LifEnded /\ lif.kind = "ndarray") =>
        lif.pc = "returned" /\ Within5Percent(ex.mean, lif.rate[0].v)
====
